---- MODULE Spec2Model ----
(***************************************************************************)
(* Model of the two sPHENIX EMCal QA plotting macros:                      *)
(*   - OverlayPlotter  (overlay of one histogram type over all runs),      *)
(*   - SinglePlotter   (one image per run and histogram type), with the    *)
(*     interactive prompts of SinglePlotGenerator.                         *)
(*                                                                         *)
(* One behaviour of Spec is one of five harnesses, chosen by `prog`:       *)
(*   "overlay"   OverlayPlotter::Overlay called for the first MaxCalls     *)
(*               histogram names of OverlayedPlotGenerator;                *)
(*   "single"    SinglePlotter::Plot called likewise;                      *)
(*   "normalize" a direct call of Normalize on drawn inputs;               *)
(*   "cut"       a direct call of ApplyEnergyCut on drawn inputs;          *)
(*   "ask"       the prompt sequence of SinglePlotGenerator.               *)
(*                                                                         *)
(* Numbers: bin contents are exact rationals [num, den]; the rounding of   *)
(* double/float arithmetic is not represented.  C++ int keeps its 32 bits. *)
(* Bin centres and the cut value are counted in units of 0.5.              *)
(***************************************************************************)
EXTENDS Integers, Sequences, FiniteSets, TLC

\* ---------------------------------------------------------------- bounds
NumRuns == 3       \* entries of the run table that are configured
MaxCalls == 2      \* Overlay / Plot calls modelled, of the generator's five
NBins == 4         \* GetNbinsX() of every histogram
MaxLines == 4      \* lines the user types before walking away
MaxTokens == 2     \* tokens per typed line

\* ------------------------------------------------------- program constants
\* runDataMap_ in source order: run number and SEB count.
RunTable ==
  << [run |-> "21813", sebCount |-> 7], [run |-> "21796", sebCount |-> 8],
     [run |-> "21615", sebCount |-> 8], [run |-> "21599", sebCount |-> 8],
     [run |-> "21598", sebCount |-> 8], [run |-> "21891", sebCount |-> 7],
     [run |-> "22979", sebCount |-> 5], [run |-> "22950", sebCount |-> 5],
     [run |-> "22949", sebCount |-> 5], [run |-> "22951", sebCount |-> 5],
     [run |-> "22982", sebCount |-> 5], [run |-> "21518", sebCount |-> 8],
     [run |-> "21520", sebCount |-> 8], [run |-> "21889", sebCount |-> 7] >>

\* The histogram names in the order the generators call Overlay / Plot.
HistNames ==
  << "hClusterChi", "hTotalMBD", "hClusterPt", "hTotalCaloE", "hClusterECore" >>

\* The menu of AskHistogramToCut.
options ==
  << "hClusterChi", "hClusterPt", "hClusterECore", "hTotalCaloE", "hTotalMBD" >>

Min(a, b) == IF a < b THEN a ELSE b

\* runDataMap_[run].sebCount
sebCountOf(run) ==
  RunTable[CHOOSE i \in 1..Len(RunTable) : RunTable[i].run = run].sebCount

\* ---------------------------------------------------------------- C++ int
\* INT_MAX of the 32-bit int that holds nEvents and nSEBs.
IntMax == 2147483647

\* a * b in 32-bit signed int, for 0 <= a <= IntMax and 0 <= b < 2^15, computed
\* in 16-bit halves: `fits` tells whether the mathematical product is an int,
\* `value` is the product reduced to 32 bits in two's complement (the product
\* itself when it fits).
MulInt32(a, b) ==
  LET al == a % 65536
      ah == a \div 65536
      lo == (al * b) % 65536
      hi == ah * b + ((al * b) \div 65536)
      hw == hi % 65536
  IN  [ fits  |-> hi < 32768,
        value |-> (IF hw >= 32768 THEN hw - 65536 ELSE hw) * 65536 + lo ]

\* ------------------------------------------------------------- histograms
\* A bin content, an exact rational; den = 0 stands for inf / NaN.
Content(n, d) == [num |-> n, den |-> d]

BinRange == 0..(NBins + 1)      \* 0 is the underflow bin, NBins + 1 the overflow

\* A TH1F as read from a file: whole counts, never scaled.
TH1F(counts) == [ bins |-> [b \in BinRange |-> Content(counts[b], 1)], nScale |-> 0 ]

\* h->GetNbinsX()
GetNbinsX(h) == NBins

\* h->GetBinCenter(bin) on the axis [0, NBins) with unit bins, in units of 0.5.
GetBinCenter(h, bin) == 2 * bin - 1

\* h->SetBinContent(bin, 0)
SetBinContent(h, bin, n) == [h EXCEPT !.bins[bin] = Content(n, 1)]

\* 1.0 / d
Reciprocal(d) == Content(1, d)

\* h->Scale(c): every bin, underflow and overflow included, times c.
\* nScale counts the Scale calls the object has received.
Scale(h, c) ==
  [ bins   |-> [b \in BinRange |->
                 Content(h.bins[b].num * c.num, h.bins[b].den * c.den)],
    nScale |-> h.nScale + 1 ]

\* What a call of Normalize can leave behind: the histogram, and whether the
\* process trapped on the way.
Returned(h) == [h |-> h, trapped |-> FALSE]
Trapped(h) == [h |-> h, trapped |-> TRUE]

\* Mutant: the guard lets nEvents = 0 through.
Normalize_ZeroEvents(h, nEvents, nSEBs) ==
  IF nEvents >= 0 /\ nSEBs > 0
  THEN { Returned(Scale(h, Reciprocal(MulInt32(nEvents, nSEBs).value))) }
  ELSE { Returned(h) }

\* Normalize(h, nEvents, nSEBs): the set of outcomes.  nEvents * nSEBs is an
\* int product; when it overflows the behaviour is undefined, and the build
\* either wraps (plain imul, cling) or traps (-ftrapv, a sanitizer).
Normalize(h, nEvents, nSEBs) ==
  IF nEvents > 0 /\ nSEBs > 0
  THEN LET p == MulInt32(nEvents, nSEBs)
       IN  IF p.fits
           THEN { Returned(Scale(h, Reciprocal(p.value))) }
           ELSE { Returned(Scale(h, Reciprocal(p.value))), Trapped(h) }
  ELSE { Returned(h) }

\* Mutant: a bin whose centre equals the cut value is zeroed too.
RECURSIVE CutBins_AtOrBelow(_, _, _)
CutBins_AtOrBelow(h, cutValue, n) ==
  IF n = 0 THEN h
  ELSE LET g == CutBins_AtOrBelow(h, cutValue, n - 1)
       IN  IF GetBinCenter(g, n) <= cutValue THEN SetBinContent(g, n, 0) ELSE g

\* One pass of the loop of ApplyEnergyCut, bins 1..n.
RECURSIVE CutBins(_, _, _)
CutBins(h, cutValue, n) ==
  IF n = 0 THEN h
  ELSE LET g == CutBins(h, cutValue, n - 1)
       IN  IF GetBinCenter(g, n) < cutValue THEN SetBinContent(g, n, 0) ELSE g

\* ApplyEnergyCut(hist) with the member cutValue_ passed in.
ApplyEnergyCut(h, cutValue) == CutBins(h, cutValue, GetNbinsX(h))

\* ------------------------------------------------------------------ state
VARIABLES
  prog,         \* which harness runs
  pc,           \* where the program stands
  normalize_,   \* OverlayPlotter / SinglePlotter member
  applyCut_,    \* SinglePlotter member (AskApplyCut's answer)
  cutValue_,    \* SinglePlotter member (AskEnergyCutValue's answer)
  histToCut_,   \* SinglePlotter member (AskHistogramToCut's answer)
  runNumbers_,  \* the runs in iteration order
  call,         \* how many Overlay / Plot calls have started
  runIdx,       \* position of the range-for over the runs
  canvas,       \* cOverlay_: the series drawn, in draw order
  leg_,         \* the legend's entries
  legDrawn,     \* whether leg_ is among the canvas primitives
  nSaved,       \* charts written by cOverlay_->SaveAs
  images,       \* images written by PlotRun during the current Plot call
  openFiles,    \* TFile objects open (opened, not closed)
  attempts,     \* what each run of the current call found in its file
  hist0,        \* direct calls: the histogram before
  hist,         \* direct calls: the histogram after
  nEvents,      \* direct call of Normalize: argument
  nSEBs,        \* direct call of Normalize: argument
  cin,          \* prompts: the lines typed and not yet consumed
  typed         \* prompts: how many lines the user has typed

vars == << prog, pc, normalize_, applyCut_, cutValue_, histToCut_, runNumbers_,
           call, runIdx, canvas, leg_, legDrawn, nSaved, images, openFiles,
           attempts, hist0, hist, nEvents, nSEBs, cin, typed >>

memberVars == << normalize_, applyCut_, cutValue_, histToCut_, runNumbers_ >>
directVars == << hist0, hist, nEvents, nSEBs >>
promptVars == << cin, typed >>
chartVars == << canvas, leg_, legDrawn, nSaved, images >>

\* ------------------------------------------------------- files on disk
\* Bin counts a qa.root file can hold for a histogram.
RampCounts == [b \in BinRange |-> b + 1]
PeakCounts == [b \in BinRange |-> IF b = 2 THEN 6 ELSE 0]
EdgeCounts == [b \in BinRange |-> IF b \in {0, NBins + 1} THEN 3 ELSE 1]

\* What TFile::Open can return.
FileStates == {"null", "zombie", "ok"}

\* hNClusters->GetEntries() of the files the plotters read.
FileEntries == {0, 2}

\* A run's entry in `attempts`: the outcome of TFile::Open, of the two Get
\* calls, and what the objects found hold.
Attempt(run, file, histFound, hNFound, entries, counts) ==
  [ run |-> run, file |-> file, histFound |-> histFound, hNFound |-> hNFound,
    entries |-> entries, counts |-> counts ]

NoCounts == [b \in BinRange |-> 0]

\* Bin counts of the histograms in the files the plotters read.
FileCounts == {RampCounts}

\* The file could not be opened: nothing was looked up in it.
NoFile(run, file) == Attempt(run, file, FALSE, FALSE, 0, NoCounts)

\* The file opened and a lookup failed: no object was read.
NoHist(run, histFound, hNFound) == Attempt(run, "ok", histFound, hNFound, 0, NoCounts)

\* --------------------------------------------------- shared by both plotters
\* if (!file || file->IsZombie())
FileIssue(file) == file = "null" \/ file = "zombie"

\* Mutant: only the primary histogram is checked.
HistIssue_PrimaryOnly(histFound, hNFound) == ~histFound

\* if (!hist || !hNClusters)
HistIssue(histFound, hNFound) == ~histFound \/ ~hNFound

\* Mutant: the histogram is normalized a second time.
NormalizeStep_Twice(normalize, h, entries, sebCount) ==
  IF normalize
  THEN UNION { Normalize(r.h, entries, sebCount) : r \in Normalize(h, entries, sebCount) }
  ELSE { Returned(h) }

\* if (normalize_) { nEvents = hNClusters->GetEntries(); Normalize(hist, nEvents, nSEBs); }
NormalizeStep(normalize, h, entries, sebCount) ==
  IF normalize THEN Normalize(h, entries, sebCount) ELSE { Returned(h) }

\* Mutant: a failing run ends the loop over the runs.
SkipRun_Break(opened) ==
  /\ runIdx' = Len(runNumbers_) + 1
  /\ pc' = pc
  /\ openFiles' = openFiles + opened
  /\ UNCHANGED chartVars

\* `return` from OverlayRun / PlotRun before anything is styled or drawn; the
\* range-for goes on with the next run.  `opened` is 1 when the TFile was
\* opened: neither function closes it on this path.
SkipRun(opened) ==
  /\ runIdx' = runIdx + 1
  /\ pc' = pc
  /\ openFiles' = openFiles + opened
  /\ UNCHANGED chartVars

\* The process stops inside Normalize.
Abort ==
  /\ pc' = "aborted"
  /\ openFiles' = openFiles + 1
  /\ UNCHANGED << runIdx, chartVars >>

\* ------------------------------------------------------------ OverlayPlotter
\* Mutant: the legend is not cleared.
ResetCanvas_KeepsLegend ==
  /\ canvas' = <<>>
  /\ leg_' = leg_
  /\ legDrawn' = FALSE

\* cOverlay_->Clear(); leg_->Clear();
ResetCanvas ==
  /\ canvas' = <<>>
  /\ leg_' = <<>>
  /\ legDrawn' = FALSE

\* if (run == *runNumbers_.begin()) "HIST" else "HIST SAME"
DrawOption(run) == IF run = Head(runNumbers_) THEN "HIST" ELSE "HIST SAME"

\* hist->Draw(option) on the pad: without SAME the pad is cleared first.
Draw(pad, run, h, option) ==
  LET series == [run |-> run, option |-> option, hist |-> h]
  IN  IF option = "HIST SAME" THEN Append(pad, series) ELSE << series >>

\* leg_->AddEntry(hist, Form("Run: %s", run.c_str()), "l")
AddEntry(leg, run) == Append(leg, [label |-> << "Run: ", run >>, option |-> "l"])

\* Overlay, up to the loop: ResetCanvas().
OverlayBegin ==
  /\ prog = "overlay" /\ pc = "idle"
  /\ call < Min(MaxCalls, Len(HistNames))
  /\ call' = call + 1
  /\ ResetCanvas
  /\ runIdx' = 1
  /\ attempts' = <<>>
  /\ pc' = "loop"
  /\ UNCHANGED << prog, memberVars, nSaved, images, openFiles, directVars, promptVars >>

\* One iteration of the loop of Overlay: OverlayRun(run, histName, ...).
OverlayRun ==
  /\ prog = "overlay" /\ pc = "loop"
  /\ runIdx <= Len(runNumbers_)
  /\ LET run == runNumbers_[runIdx] IN
     \E file \in FileStates :
       IF FileIssue(file)
       THEN /\ attempts' = Append(attempts, NoFile(run, file))
            /\ SkipRun(0)
       ELSE \E histFound \in BOOLEAN, hNFound \in BOOLEAN :
         IF HistIssue(histFound, hNFound)
         THEN /\ attempts' = Append(attempts, NoHist(run, histFound, hNFound))
              /\ SkipRun(1)
         ELSE \E counts \in FileCounts, entries \in FileEntries :
           \E res \in NormalizeStep(normalize_, TH1F(counts), entries, sebCountOf(run)) :
             /\ attempts' = Append(attempts, Attempt(run, file, histFound, hNFound, entries, counts))
             /\ IF res.trapped
                THEN Abort
                ELSE /\ canvas' = Draw(canvas, run, res.h, DrawOption(run))
                     /\ leg_' = AddEntry(leg_, run)
                     /\ runIdx' = runIdx + 1
                     /\ pc' = pc
                     /\ openFiles' = openFiles + 1
                     /\ UNCHANGED << legDrawn, nSaved, images >>
  /\ UNCHANGED << prog, memberVars, call, directVars, promptVars >>

\* Overlay, after the loop: leg_->Draw(), the label, Update(), SaveAs().
OverlayFinalize ==
  /\ prog = "overlay" /\ pc = "loop"
  /\ runIdx > Len(runNumbers_)
  /\ legDrawn' = TRUE
  /\ nSaved' = nSaved + 1
  /\ pc' = "idle"
  /\ UNCHANGED << prog, memberVars, call, runIdx, canvas, leg_, images, openFiles,
                  attempts, directVars, promptVars >>

\* ------------------------------------------------------------- SinglePlotter
\* std::find(histToCut_.begin(), histToCut_.end(), histName) != histToCut_.end()
Find(histToCut, histName) == \E i \in 1..Len(histToCut) : histToCut[i] = histName

\* Mutant: the eligible set is not consulted.
CutStep_FlagOnly(applyCut, histToCut, histName, h, cutValue) ==
  IF applyCut THEN ApplyEnergyCut(h, cutValue) ELSE h

\* if (applyCut_ && find(...)) ApplyEnergyCut(hist);
CutStep(applyCut, histToCut, histName, h, cutValue) ==
  IF applyCut /\ Find(histToCut, histName) THEN ApplyEnergyCut(h, cutValue) ELSE h

\* Plot, up to the loop.
PlotBegin ==
  /\ prog = "single" /\ pc = "idle"
  /\ call < Min(MaxCalls, Len(HistNames))
  /\ call' = call + 1
  /\ runIdx' = 1
  /\ attempts' = <<>>
  /\ images' = <<>>
  /\ pc' = "loop"
  /\ UNCHANGED << prog, memberVars, canvas, leg_, legDrawn, nSaved, openFiles,
                  directVars, promptVars >>

\* One iteration of the loop of Plot: PlotRun(run, histName, ..., sebCount).
PlotRun ==
  /\ prog = "single" /\ pc = "loop"
  /\ runIdx <= Len(runNumbers_)
  /\ LET run == runNumbers_[runIdx]
         histName == HistNames[call]
     IN
     \E file \in FileStates :
       IF FileIssue(file)
       THEN /\ attempts' = Append(attempts, NoFile(run, file))
            /\ SkipRun(0)
       ELSE \E histFound \in BOOLEAN, hNFound \in BOOLEAN :
         IF HistIssue(histFound, hNFound)
         THEN /\ attempts' = Append(attempts, NoHist(run, histFound, hNFound))
              /\ SkipRun(1)
         ELSE \E counts \in FileCounts, entries \in FileEntries :
           \E res \in NormalizeStep(normalize_, TH1F(counts), entries, sebCountOf(run)) :
             /\ attempts' = Append(attempts, Attempt(run, file, histFound, hNFound, entries, counts))
             /\ IF res.trapped
                THEN Abort
                ELSE /\ images' = Append(images,
                          [ run |-> run, histName |-> histName, option |-> "HIST",
                            normalized |-> res.h,
                            hist |-> CutStep(applyCut_, histToCut_, histName, res.h, cutValue_) ])
                     /\ runIdx' = runIdx + 1
                     /\ pc' = pc
                     /\ openFiles' = openFiles      \* file->Close(); delete file;
                     /\ UNCHANGED << canvas, leg_, legDrawn, nSaved >>
  /\ UNCHANGED << prog, memberVars, call, directVars, promptVars >>

\* Plot, after the loop.
PlotEnd ==
  /\ prog = "single" /\ pc = "loop"
  /\ runIdx > Len(runNumbers_)
  /\ pc' = "idle"
  /\ UNCHANGED << prog, memberVars, call, runIdx, chartVars, openFiles, attempts,
                  directVars, promptVars >>

\* OverlayedPlotGenerator / SinglePlotGenerator return after the last call.
GeneratorReturn ==
  /\ prog \in {"overlay", "single"} /\ pc = "idle"
  /\ call = Min(MaxCalls, Len(HistNames))
  /\ pc' = "done"
  /\ UNCHANGED << prog, memberVars, call, runIdx, chartVars, openFiles, attempts,
                  directVars, promptVars >>

\* --------------------------------------------------------------- direct calls
\* Normalize(h, nEvents, nSEBs) called on the drawn arguments.
CallNormalize ==
  /\ prog = "normalize" /\ pc = "call"
  /\ \E res \in Normalize(hist, nEvents, nSEBs) :
       /\ hist' = res.h
       /\ pc' = IF res.trapped THEN "aborted" ELSE "returned"
  /\ UNCHANGED << prog, memberVars, call, runIdx, chartVars, openFiles, attempts,
                  hist0, nEvents, nSEBs, promptVars >>

\* ApplyEnergyCut(hist) called on the drawn histogram and cutValue_.
CallApplyEnergyCut ==
  /\ prog = "cut" /\ pc = "call"
  /\ hist' = ApplyEnergyCut(hist, cutValue_)
  /\ pc' = "returned"
  /\ UNCHANGED << prog, memberVars, call, runIdx, chartVars, openFiles, attempts,
                  hist0, nEvents, nSEBs, promptVars >>

\* -------------------------------------------------------------------- std::cin
\* The words a user types.
Tokens == {"yes", "no", "maybe", "0", "1", "3", "6"}

RECURSIVE SeqsUpTo(_, _)
SeqsUpTo(S, n) ==
  IF n = 0 THEN { <<>> }
  ELSE LET shorter == SeqsUpTo(S, n - 1)
       IN  shorter \cup { Append(q, t) : q \in shorter, t \in S }

\* The lines a user types: up to MaxTokens words, then Enter.
Lines == SeqsUpTo(Tokens, MaxTokens)

\* operator>> skips whitespace, line ends included.
RECURSIVE SkipWs(_)
SkipWs(in) ==
  IF in = <<>> THEN <<>>
  ELSE IF Head(in) = <<>> THEN SkipWs(Tail(in)) ELSE in

HasToken(in) == SkipWs(in) # <<>>
NextToken(in) == Head(Head(SkipWs(in)))
\* The stream after operator>> took the next word: the rest of its line stays.
AfterToken(in) == << Tail(Head(SkipWs(in))) >> \o Tail(SkipWs(in))

\* Whether operator>> into an int or a double succeeds on the word.
IsNumber(tok) == tok \in {"0", "1", "3", "6"}

\* The value operator>> stores into an int.
IntOf(tok) ==
  CASE tok = "0" -> 0 [] tok = "1" -> 1 [] tok = "3" -> 3 [] tok = "6" -> 6

\* The value operator>> stores into a double, in units of 0.5.
DoubleOf(tok) == 2 * IntOf(tok)

\* The user types a line while the program waits for input: operator>> waits
\* for a word, getline for a line end.
TypeLine ==
  /\ prog = "ask"
  /\ typed < MaxLines
  /\ \/ pc \in {"AskApplyCut", "AskEnergyCutValue"} /\ ~HasToken(cin)
     \/ pc \in {"AskHistogramToCut.clear", "AskHistogramToCut.read"} /\ cin = <<>>
  /\ \E line \in Lines : cin' = Append(cin, line)
  /\ typed' = typed + 1
  /\ UNCHANGED << prog, pc, memberVars, call, runIdx, chartVars, openFiles, attempts,
                  directVars >>

\* ---------------------------------------------------------------- the prompts
\* AskApplyCut: one round of its loop, then (on yes / no) back in
\* SinglePlotGenerator, which asks on only after a yes.
AskApplyCut ==
  /\ prog = "ask" /\ pc = "AskApplyCut"
  /\ HasToken(cin)
  /\ LET response == NextToken(cin) IN
       /\ cin' = AfterToken(cin)
       /\ IF response = "yes"
          THEN applyCut_' = TRUE /\ pc' = "AskHistogramToCut.clear"
          ELSE IF response = "no"
          THEN applyCut_' = FALSE /\ pc' = "construct"
          ELSE applyCut_' = applyCut_ /\ pc' = pc
  /\ UNCHANGED << prog, normalize_, cutValue_, histToCut_, runNumbers_, call, runIdx,
                  chartVars, openFiles, attempts, directVars, typed >>

\* AskHistogramToCut, first getline: "to clear any previous inputs".
AskHistogramToCutClear ==
  /\ prog = "ask" /\ pc = "AskHistogramToCut.clear"
  /\ cin # <<>>
  /\ cin' = Tail(cin)
  /\ pc' = "AskHistogramToCut.read"
  /\ UNCHANGED << prog, memberVars, call, runIdx, chartVars, openFiles, attempts,
                  directVars, typed >>

\* while (ss >> choice): a valid choice is pushed, an invalid one reported and
\* passed over, and the loop ends at the first word that is no integer.
RECURSIVE ParseChoices(_, _)
ParseChoices(ss, histogramsToCut) ==
  IF ss = <<>> \/ ~IsNumber(Head(ss)) THEN histogramsToCut
  ELSE LET choice == IntOf(Head(ss))
       IN  IF choice >= 1 /\ choice <= 5
           THEN ParseChoices(Tail(ss), Append(histogramsToCut, options[choice]))
           ELSE ParseChoices(Tail(ss), histogramsToCut)

\* AskHistogramToCut, second getline to the return.
AskHistogramToCut ==
  /\ prog = "ask" /\ pc = "AskHistogramToCut.read"
  /\ cin # <<>>
  /\ histToCut_' = ParseChoices(Head(cin), <<>>)
  /\ cin' = Tail(cin)
  /\ pc' = "AskEnergyCutValue"
  /\ UNCHANGED << prog, normalize_, applyCut_, cutValue_, runNumbers_, call, runIdx,
                  chartVars, openFiles, attempts, directVars, typed >>

\* AskEnergyCutValue: one round of its loop.  On failure cin.clear() and
\* cin.ignore(max, '\n') drop the rest of the line.
AskEnergyCutValue ==
  /\ prog = "ask" /\ pc = "AskEnergyCutValue"
  /\ HasToken(cin)
  /\ IF IsNumber(NextToken(cin))
     THEN /\ cutValue_' = DoubleOf(NextToken(cin))
          /\ cin' = AfterToken(cin)
          /\ pc' = "construct"
     ELSE /\ cutValue_' = cutValue_
          /\ cin' = Tail(SkipWs(cin))
          /\ pc' = pc
  /\ UNCHANGED << prog, normalize_, applyCut_, histToCut_, runNumbers_, call, runIdx,
                  chartVars, openFiles, attempts, directVars, typed >>

\* SinglePlotter plotter(true, applyCut, cutValue, histToCut);
Construct ==
  /\ prog = "ask" /\ pc = "construct"
  /\ normalize_' = TRUE
  /\ pc' = "configured"
  /\ UNCHANGED << prog, applyCut_, cutValue_, histToCut_, runNumbers_, call, runIdx,
                  chartVars, openFiles, attempts, directVars, promptVars >>

\* ------------------------------------------------------------------ Init
\* runDataMap_ is an unordered_map: its iteration order is fixed for a build
\* and unspecified.  Two orders are followed: that of the table, and its reverse.
TableOrder == [i \in 1..Min(NumRuns, Len(RunTable)) |-> RunTable[i].run]
Reverse(s) == [i \in 1..Len(s) |-> s[Len(s) + 1 - i]]
RunOrders == { TableOrder, Reverse(TableOrder) }

\* Constructor arguments of SinglePlotter: applyCut, cutValue, histToCut.
CutConfig(a, c, h) == [applyCut |-> a, cutValue |-> c, histToCut |-> h]
CutConfigs ==
  { CutConfig(FALSE, 0, <<>>),
    CutConfig(TRUE, 4, <<>>),
    CutConfig(FALSE, 4, << "hClusterChi" >>),
    CutConfig(TRUE, 4, << "hClusterChi" >>),
    CutConfig(TRUE, 3, << "hClusterChi" >>),
    CutConfig(TRUE, 4, << "hTotalMBD", "hClusterChi" >>) }

\* Arguments of the direct calls.
DirectCounts == { RampCounts, PeakCounts, EdgeCounts }
DirectEntries ==
  { -1, 0, 1, 3, 268435455, 268435456, 306783379, 429496730, 536870912, IntMax }
DirectSEBs == { -1, 0, 5, 7, 8 }
DirectCuts == 0..(2 * NBins + 2)

\* No chart, no file, no call yet.
NothingPlotted ==
  /\ call = 0 /\ runIdx = 0
  /\ canvas = <<>> /\ leg_ = <<>> /\ legDrawn = FALSE
  /\ nSaved = 0 /\ images = <<>>
  /\ openFiles = 0 /\ attempts = <<>>

NoDirectCall ==
  /\ hist0 = TH1F(NoCounts) /\ hist = TH1F(NoCounts)
  /\ nEvents = 0 /\ nSEBs = 0

NoPrompt == cin = <<>> /\ typed = 0

\* OverlayPlotter overlayPlotter(normalize), idle before the first Overlay.
InitOverlay ==
  /\ prog = "overlay" /\ pc = "idle"
  /\ normalize_ \in BOOLEAN
  /\ applyCut_ = FALSE /\ cutValue_ = 0 /\ histToCut_ = <<>>
  /\ runNumbers_ \in RunOrders
  /\ NothingPlotted /\ NoDirectCall /\ NoPrompt

\* SinglePlotter plotter(normalize, applyCut, cutValue, histToCut).
InitSingle ==
  /\ prog = "single" /\ pc = "idle"
  /\ normalize_ \in BOOLEAN
  /\ \E cfg \in CutConfigs :
       /\ applyCut_ = cfg.applyCut
       /\ cutValue_ = cfg.cutValue
       /\ histToCut_ = cfg.histToCut
  /\ runNumbers_ \in RunOrders
  /\ NothingPlotted /\ NoDirectCall /\ NoPrompt

InitNormalize ==
  /\ prog = "normalize" /\ pc = "call"
  /\ normalize_ = TRUE
  /\ applyCut_ = FALSE /\ cutValue_ = 0 /\ histToCut_ = <<>>
  /\ runNumbers_ = <<>>
  /\ NothingPlotted /\ NoPrompt
  /\ \E counts \in DirectCounts : hist0 = TH1F(counts) /\ hist = TH1F(counts)
  /\ nEvents \in DirectEntries
  /\ nSEBs \in DirectSEBs

InitCut ==
  /\ prog = "cut" /\ pc = "call"
  /\ normalize_ = FALSE
  /\ applyCut_ = TRUE /\ cutValue_ \in DirectCuts /\ histToCut_ = <<>>
  /\ runNumbers_ = <<>>
  /\ NothingPlotted /\ NoPrompt
  /\ \E counts \in DirectCounts : hist0 = TH1F(counts) /\ hist = TH1F(counts)
  /\ nEvents = 0 /\ nSEBs = 0

\* SinglePlotGenerator at its first line: histToCut empty, cutValue = 0.
InitAsk ==
  /\ prog = "ask" /\ pc = "AskApplyCut"
  /\ normalize_ = FALSE
  /\ applyCut_ = FALSE /\ cutValue_ = 0 /\ histToCut_ = <<>>
  /\ runNumbers_ = <<>>
  /\ NothingPlotted /\ NoDirectCall /\ NoPrompt

Init == InitOverlay \/ InitSingle \/ InitNormalize \/ InitCut \/ InitAsk

Next ==
  \/ OverlayBegin \/ OverlayRun \/ OverlayFinalize
  \/ PlotBegin \/ PlotRun \/ PlotEnd
  \/ GeneratorReturn
  \/ CallNormalize \/ CallApplyEnergyCut
  \/ TypeLine \/ AskApplyCut \/ AskHistogramToCutClear \/ AskHistogramToCut
  \/ AskEnergyCutValue \/ Construct

Spec == Init /\ [][Next]_vars

\* ---------------------------------------------------------------- the claims
Plotting == prog \in {"overlay", "single"}

\* The file opened as a non-zombie and both lookups succeeded.
Loaded(a) == a.file = "ok" /\ a.histFound /\ a.hNFound

\* The attempts of the current call whose run loaded, in attempt order.
LoadedAttempts == SelectSeq(attempts, Loaded)

AttemptedRuns == [i \in 1..Len(attempts) |-> attempts[i].run]

\* Between two calls, or after the last one.
CallFinished == Plotting /\ pc \in {"idle", "done"} /\ call >= 1

\* C1: a run contributes to the output (OverlayRun draws its series and adds
\* its legend entry, PlotRun saves its image) if and only if its file opened as
\* a non-zombie and both the primary histogram and hNClusters were found;
\* every other run leaves chart, legend and images as they were.
C1_ContributesIffLoaded ==
  [][ Len(attempts') = Len(attempts) + 1 =>
        LET a == attempts'[Len(attempts')] IN
        IF Loaded(a)
        THEN IF prog = "overlay"
             THEN /\ Len(canvas') = Len(canvas) + 1
                  /\ canvas'[Len(canvas')].run = a.run
                  /\ leg_' = Append(leg_, [label |-> << "Run: ", a.run >>, option |-> "l"])
             ELSE /\ Len(images') = Len(images) + 1
                  /\ images'[Len(images')].run = a.run
        ELSE UNCHANGED << canvas, leg_, legDrawn, nSaved, images >>
    ]_vars

\* C1 witness: an Overlay call in which a run whose file opened but lacked
\* hNClusters was passed over and the next run was drawn and entered.
C1_Witness ==
  /\ prog = "overlay" /\ Len(attempts) = 2
  /\ attempts[1].file = "ok" /\ attempts[1].histFound /\ ~attempts[1].hNFound
  /\ Loaded(attempts[2])
  /\ Len(canvas) = 1 /\ canvas[1].run = attempts[2].run
  /\ Len(leg_) = 1

\* C2: whatever runs fail, a finished Overlay or Plot call has attempted every
\* run of the list exactly once and in order, every run that loaded is in the
\* output, and Overlay has drawn the legend and saved the chart once per call;
\* inside the loop the runs before the current one have been attempted, the
\* chart of this call is not yet saved, and the program can always go on.
C2_EveryRunAttemptedOnce ==
  Plotting =>
    /\ CallFinished =>
         /\ AttemptedRuns = runNumbers_
         /\ prog = "overlay" => Len(canvas) = Len(LoadedAttempts) /\ legDrawn /\ nSaved = call
         /\ prog = "single" => Len(images) = Len(LoadedAttempts)
    /\ pc = "loop" =>
         /\ AttemptedRuns = SubSeq(runNumbers_, 1, runIdx - 1)
         /\ prog = "overlay" => ~legDrawn /\ nSaved = call - 1
    /\ pc # "done" => ENABLED Next

\* C2 witness: an Overlay call finished although every run failed.
C2_Witness ==
  /\ prog = "overlay" /\ CallFinished
  /\ Len(attempts) = Len(runNumbers_)
  /\ LoadedAttempts = <<>>
  /\ \E i \in 1..Len(attempts) : attempts[i].file = "ok"
  /\ \E i \in 1..Len(attempts) : attempts[i].file = "zombie"
  /\ legDrawn /\ nSaved = call

\* d is the mathematical product a * b of two positive ints (stated without
\* forming the product).
IsProduct(d, a, b) == d > 0 /\ d % b = 0 /\ d \div b = a

\* C3: for nEvents > 0 and weightFactor > 0, after Normalize every bin content
\* is its original content divided by nEvents * weightFactor, for every int
\* nEvents.
C3_NormalizedExactly ==
  (prog = "normalize" /\ pc # "call" /\ nEvents > 0 /\ nSEBs > 0) =>
    \A b \in BinRange :
      /\ hist.bins[b].num = hist0.bins[b].num
      /\ IsProduct(hist.bins[b].den, nEvents, nSEBs)

\* The series / images of the current call, one per loaded attempt, in order.
Rendered == IF prog = "overlay" THEN canvas ELSE images
AfterNormalization(i) ==
  IF prog = "overlay" THEN canvas[i].hist ELSE images[i].normalized

\* C4: when nEvents = 0 or the weight factor is <= 0, and whenever the
\* normalization flag is off, the normalization step leaves every bin content
\* as read and raises nothing, and the run is rendered all the same.
C4_NoOpNormalization ==
  /\ (prog = "normalize" /\ pc # "call" /\ (nEvents = 0 \/ nSEBs <= 0)) =>
       hist = hist0 /\ pc = "returned"
  /\ Plotting =>
       /\ pc # "aborted"
       /\ Len(Rendered) = Len(LoadedAttempts)
       /\ \A i \in 1..Len(LoadedAttempts) :
            LET a == LoadedAttempts[i] IN
            /\ Rendered[i].run = a.run
            /\ (~normalize_ \/ a.entries = 0) => AfterNormalization(i) = TH1F(a.counts)

\* C4 witness: with normalization on, a run with no events was saved by
\* PlotRun with its bins as read.
C4_Witness ==
  /\ prog = "single" /\ normalize_ /\ ~applyCut_
  /\ Len(images) = 1 /\ Len(LoadedAttempts) = 1
  /\ LoadedAttempts[1].entries = 0
  /\ images[1].hist = TH1F(LoadedAttempts[1].counts)

\* C5: ApplyEnergyCut zeroes every bin 1..N whose centre is strictly below the
\* cut value and leaves every bin whose centre is at or above it unchanged.
C5_CutZeroesBelowThreshold ==
  (prog = "cut" /\ pc = "returned") =>
    \A bin \in 1..NBins :
      IF GetBinCenter(hist0, bin) < cutValue_
      THEN hist.bins[bin] = Content(0, 1)
      ELSE hist.bins[bin] = hist0.bins[bin]

\* C5 witness: centres 0.5, 1.5, 2.5, 3.5 and cut value 1.5: the bin at 0.5 is
\* zeroed and the bin at 1.5, whose centre equals the cut value, is kept.
C5_Witness ==
  /\ prog = "cut" /\ pc = "returned"
  /\ cutValue_ = 3 /\ hist0 = TH1F(RampCounts)
  /\ hist.bins[1] = Content(0, 1)
  /\ hist.bins[2] = Content(3, 1)
  /\ hist.bins[3] = hist0.bins[3]

\* C6: when an Overlay call is finished the legend holds exactly one entry for
\* each run that loaded during this call, in run-list order, and nothing from
\* an earlier call, whatever runs fail and however many calls came before.
C6_LegendIsThisCallsLoadedRuns ==
  (prog = "overlay" /\ CallFinished) =>
    /\ AttemptedRuns = runNumbers_
    /\ Len(leg_) = Len(LoadedAttempts)
    /\ \A i \in 1..Len(leg_) :
         leg_[i] = [label |-> << "Run: ", LoadedAttempts[i].run >>, option |-> "l"]

\* C6 witness: the second Overlay call finished with the first run of the
\* list failing and the two after it in the legend, after a first call that
\* opened three files.
C6_Witness ==
  /\ prog = "overlay" /\ CallFinished /\ call = 2
  /\ Len(attempts) = 3
  /\ ~Loaded(attempts[1]) /\ Loaded(attempts[2]) /\ Loaded(attempts[3])
  /\ Len(leg_) = 2
  /\ leg_[1].label = << "Run: ", runNumbers_[2] >>
  /\ leg_[2].label = << "Run: ", runNumbers_[3] >>
  /\ openFiles >= 5

\* C7: when a run's file is opened, no file opened for an earlier run is
\* still open, on the success path and on the skip paths, in OverlayRun and
\* in PlotRun.
C7_NoEarlierFileOpen ==
  [][ (Len(attempts') = Len(attempts) + 1 /\ attempts'[Len(attempts')].file = "ok")
        => openFiles = 0 ]_vars

\* C8: over any sequence of Overlay or Plot calls no histogram that is drawn
\* or saved has been scaled more than once; with normalization on and events
\* counted it has been scaled exactly once, by nEvents * sebCount.
C8_ScaledAtMostOnce ==
  Plotting =>
    \A i \in 1..Len(Rendered) :
      LET h == AfterNormalization(i)
          a == LoadedAttempts[i]
      IN  /\ h.nScale <= 1
          /\ Rendered[i].hist.nScale = h.nScale
          /\ (normalize_ /\ a.entries > 0) =>
               /\ h.nScale = 1
               /\ \A b \in BinRange :
                    h.bins[b] = Content(a.counts[b], a.entries * sebCountOf(a.run))

\* C8 witness: in the second Overlay call two runs were drawn, each scaled once.
C8_Witness ==
  /\ prog = "overlay" /\ call = 2 /\ normalize_
  /\ Len(canvas) = 2
  /\ canvas[1].hist.nScale = 1 /\ canvas[2].hist.nScale = 1

\* The answer now at the front of std::cin is malformed for the prompt that
\* reads it.
MalformedAnswer ==
  \/ /\ pc = "AskApplyCut" /\ HasToken(cin)
     /\ NextToken(cin) \notin {"yes", "no"}
  \/ /\ pc = "AskEnergyCutValue" /\ HasToken(cin)
     /\ ~IsNumber(NextToken(cin))
  \/ /\ pc = "AskHistogramToCut.read" /\ cin # <<>>
     /\ \E i \in 1..Len(Head(cin)) :
          IsNumber(Head(cin)[i]) /\ IntOf(Head(cin)[i]) \notin 1..5

\* The prompts of the function the program is in.
SamePrompt(p) ==
  IF p \in {"AskHistogramToCut.clear", "AskHistogramToCut.read"}
  THEN {"AskHistogramToCut.clear", "AskHistogramToCut.read"}
  ELSE {p}

\* C9: every malformed answer (neither yes nor no, a cut value that is no
\* number, a menu index out of range) is rejected: the same prompt asks again
\* and nothing is stored.
C9_MalformedInputReprompts ==
  [][ (prog = "ask" /\ MalformedAnswer) =>
        /\ pc' \in SamePrompt(pc)
        /\ UNCHANGED << applyCut_, cutValue_, histToCut_ >> ]_vars

\* C10: the draw modes of OverlayRun are those of the session machine
\* Empty / HasSeries: the first series drawn in a call is drawn fresh ("HIST")
\* and every later one is composited ("HIST SAME"), whatever runs fail.
C10_DrawModesMatchSession ==
  prog = "overlay" =>
    \A i \in 1..Len(canvas) :
      canvas[i].option = IF i = 1 THEN "HIST" ELSE "HIST SAME"

\* The names in the eligible set.
EligibleNames == { histToCut_[i] : i \in 1..Len(histToCut_) }

\* C11: in PlotRun the cut step changes bin contents only when the cut flag is
\* on and the histogram name is in the eligible set: then bins 1..N with centre
\* below the cut value are zero and the others as normalized; with the flag
\* off, or the name not in the set (an empty set included), every bin is as
\* the normalization step left it.  Either way the run is drawn and saved.
C11_CutOnlyWhenFlagAndEligible ==
  prog = "single" =>
    /\ Len(images) = Len(LoadedAttempts)
    /\ \A i \in 1..Len(images) :
         LET img == images[i] IN
         /\ img.run = LoadedAttempts[i].run
         /\ img.histName = HistNames[call]
         /\ img.option = "HIST"
         /\ IF applyCut_ /\ img.histName \in EligibleNames
            THEN \A b \in BinRange :
                   img.hist.bins[b] =
                     IF b \in 1..NBins /\ 2 * b - 1 < cutValue_
                     THEN Content(0, 1)
                     ELSE img.normalized.bins[b]
            ELSE img.hist = img.normalized

\* C11 witness: the flag is on and the set holds hClusterChi only; in the Plot
\* call for hTotalMBD a run was saved with its bins as normalized, the first
\* bin, below the cut value, not zero.
C11_Witness ==
  /\ prog = "single" /\ applyCut_ /\ normalize_
  /\ call = 2 /\ histToCut_ = << "hClusterChi" >> /\ cutValue_ = 4
  /\ Len(images) = 1
  /\ images[1].histName = "hTotalMBD"
  /\ images[1].hist = images[1].normalized
  /\ images[1].hist.nScale = 1
  /\ images[1].hist.bins[1].num > 0

\* The divisor Normalize applied: the histogram came in with whole counts, so
\* after one Scale(1.0 / d) every bin's denominator is d.
AppliedDivisor == hist.bins[1].den

\* C12: whenever Normalize scales (nEvents > 0 and nSEBs > 0), the divisor
\* nEvents * nSEBs formed in 32-bit signed int is strictly positive and is the
\* mathematical product, so the scale factor is positive and finite, for every
\* nEvents in 1..2^31-1 and every weight factor of the run table (5, 7, 8).
C12_DivisorPositiveAndExact ==
  (prog = "normalize" /\ pc # "call" /\ nEvents \in 1..IntMax /\ nSEBs \in {5, 7, 8}) =>
    /\ pc = "returned"
    /\ hist.nScale = 1
    /\ AppliedDivisor > 0
    /\ AppliedDivisor \div nSEBs = nEvents
    /\ AppliedDivisor % nSEBs = 0

====
